---- MODULE Spec2Model ----
(***************************************************************************)
(* NoDB (helper_classes.py): rows are files of one table directory, locked *)
(* with flock(2) through the file object each handle opens, and holding a   *)
(* JSON document produced by the tagged-envelope codec.                     *)
(*                                                                          *)
(* The module has two parts: the codec (pure operators over a model of      *)
(* Python values and of JSON text), and the state machine of several        *)
(* processes calling Table and Row operations on one table directory, one   *)
(* system call per step.                                                    *)
(***************************************************************************)
EXTENDS Integers, Sequences, FiniteSets, TLC

\* ------------------------------------------------------------------ bounds
NProcs == 2       \* processes, each with its own Table object
NKeys == 2        \* size of the key space the random key generator draws from
MaxCount == 1     \* largest value the attribute "count" is incremented to
MaxLen == 1       \* longest sequence / mapping among the codec inputs
MaxCalls == 3     \* calls of Table and Row methods in one run, all processes together
UpdateCalls == 5 \* calls in one run of the locked-update scenario
MaxWins == 2      \* the count of returned creations of one key saturates here

Procs == 1..NProcs
Keys == 1..NKeys

\* ------------------------------------------------- Python values (codec)
\* A str is modelled by what it spells: a literal, the ctime() text of a
\* second, or the pickle of an object.
StrLit(s) == [lit |-> s]
StrCtime(sec) == [ctime |-> sec]
StrPickle(o) == [pickle |-> o]

PyNone == [t |-> "None"]
PyBool(b) == [t |-> "bool", b |-> b]
PyInt(n) == [t |-> "int", n |-> n]
PyStr(s) == [t |-> "str", s |-> s]
PyList(xs) == [t |-> "list", xs |-> xs]
PyTuple(xs) == [t |-> "tuple", xs |-> xs]
PyDict(m) == [t |-> "dict", m |-> m]
PyDatetime(sec, usec) == [t |-> "datetime", sec |-> sec, usec |-> usec]
PyObject(o) == [t |-> "object", o |-> o]
PyRaise(e) == [t |-> "raise", e |-> e]

EmptyMap == <<>>
Marker == "_NoDBSpecialType"

\* The order in which the keys of a dict are visited.
KeyOrder == <<"count", "a", "when", "value", "_NoDBSpecialType", "_key">>

KeysOf(m) == SelectSeq(KeyOrder, LAMBDA k : k \in DOMAIN m)

\* datetime.ctime(): '%a %b %d %H:%M:%S %Y', whole seconds only.
ctime(d) == StrCtime(d.sec)

\* datetime.datetime.strptime(s, '%a %b %d %H:%M:%S %Y')
strptime(s) ==
    IF s.t = "str" /\ DOMAIN s.s = {"ctime"}
    THEN PyDatetime(s.s.ctime, 0)
    ELSE PyRaise("ValueError")

pickle_dumps(d) == PyStr(StrPickle(d))

\* pickle.loads(str(value))
pickle_loads(s) ==
    IF s.t = "str" /\ DOMAIN s.s = {"pickle"}
    THEN s.s.pickle
    ELSE PyRaise("UnpicklingError")

FirstRaised(xs) ==
    LET bad == {i \in 1..Len(xs) : xs[i].t = "raise"}
    IN IF bad = {} THEN PyNone
       ELSE xs[CHOOSE i \in bad : \A j \in bad : i <= j]

RaisedIn(m) ==
    LET ks == SelectSeq(KeysOf(m), LAMBDA k : m[k].t = "raise")
    IN IF ks = <<>> THEN PyNone ELSE m[ks[1]]

\* WritableRowBase._serializeHelper: the value it returns.
RECURSIVE _serializeHelper(_)
_serializeHelper(d) ==
    CASE d.t \in {"list", "tuple"} ->
            PyList([i \in 1..Len(d.xs) |-> _serializeHelper(d.xs[i])])
      [] d.t = "dict" ->
            PyDict([k \in DOMAIN d.m |-> _serializeHelper(d.m[k])])
      [] d.t = "datetime" ->
            PyDict([k \in {Marker, "value"} |->
                      IF k = Marker THEN PyStr(StrLit("datetime"))
                                    ELSE PyStr(ctime(d))])
      [] d.t \in {"str", "int", "bool", "None"} -> d
      [] OTHER ->
            PyDict([k \in {Marker, "value"} |->
                      IF k = Marker THEN PyStr(StrLit("pickled_object"))
                                    ELSE pickle_dumps(d)])

\* WritableRowBase._serializeHelper: the object d as the call leaves it.  A
\* dict is updated in place (d[key] = ...), a list or tuple is left alone but
\* the dicts inside it are the same objects.
RECURSIVE SerializedInPlace(_)
SerializedInPlace(d) ==
    CASE d.t = "list" -> PyList([i \in 1..Len(d.xs) |-> SerializedInPlace(d.xs[i])])
      [] d.t = "tuple" -> PyTuple([i \in 1..Len(d.xs) |-> SerializedInPlace(d.xs[i])])
      [] d.t = "dict" -> _serializeHelper(d)
      [] OTHER -> d

\* -------------------------------------------------------------- JSON text
\* A text is the sequence of its tokens; the empty file is <<>>.
TPunct(s) == [k |-> "p", s |-> s]
TLit(s) == [k |-> "lit", w |-> s]
TNum(n) == [k |-> "num", n |-> n]
TStr(c) == [k |-> "str", c |-> c]

RECURSIVE dumpsValue(_), dumpsItems(_), dumpsMembers(_, _)
dumpsValue(v) ==
    CASE v.t = "None" -> <<TLit("null")>>
      [] v.t = "bool" -> <<TLit(IF v.b THEN "true" ELSE "false")>>
      [] v.t = "int" -> <<TNum(v.n)>>
      [] v.t = "str" -> <<TStr(v.s)>>
      [] v.t \in {"list", "tuple"} ->
            <<TPunct("[")>> \o dumpsItems(v.xs) \o <<TPunct("]")>>
      [] v.t = "dict" ->
            <<TPunct("{")>> \o dumpsMembers(v.m, KeysOf(v.m)) \o <<TPunct("}")>>

dumpsItems(xs) ==
    IF xs = <<>> THEN <<>>
    ELSE dumpsValue(Head(xs))
         \o (IF Len(xs) > 1 THEN <<TPunct(",")>> ELSE <<>>)
         \o dumpsItems(Tail(xs))

dumpsMembers(m, ks) ==
    IF ks = <<>> THEN <<>>
    ELSE <<TStr(StrLit(Head(ks))), TPunct(":")>> \o dumpsValue(m[Head(ks)])
         \o (IF Len(ks) > 1 THEN <<TPunct(",")>> ELSE <<>>)
         \o dumpsMembers(m, Tail(ks))

\* json.dumps
json_dumps(v) == dumpsValue(v)

ParseFail == [ok |-> FALSE]
Parsed(v, rest) == [ok |-> TRUE, v |-> v, rest |-> rest]
IsPunct(ts, s) == ts # <<>> /\ Head(ts) = TPunct(s)

RECURSIVE parseValue(_), parseItems(_, _), parseMembers(_, _)
parseValue(ts) ==
    IF ts = <<>> THEN ParseFail
    ELSE LET h == Head(ts)
             r == Tail(ts)
         IN CASE h.k = "lit" ->
                    Parsed(IF h.w = "null" THEN PyNone ELSE PyBool(h.w = "true"), r)
              [] h.k = "num" -> Parsed(PyInt(h.n), r)
              [] h.k = "str" -> Parsed(PyStr(h.c), r)
              [] h.k = "p" /\ h.s = "[" ->
                    IF IsPunct(r, "]") THEN Parsed(PyList(<<>>), Tail(r))
                    ELSE parseItems(r, <<>>)
              [] h.k = "p" /\ h.s = "{" ->
                    IF IsPunct(r, "}") THEN Parsed(PyDict(EmptyMap), Tail(r))
                    ELSE parseMembers(r, EmptyMap)
              [] OTHER -> ParseFail

parseItems(ts, acc) ==
    LET x == parseValue(ts)
    IN IF ~x.ok THEN ParseFail
       ELSE IF IsPunct(x.rest, "]")
            THEN Parsed(PyList(Append(acc, x.v)), Tail(x.rest))
       ELSE IF IsPunct(x.rest, ",")
            THEN parseItems(Tail(x.rest), Append(acc, x.v))
       ELSE ParseFail

parseMembers(ts, acc) ==
    IF Len(ts) < 2 \/ ts[1].k # "str" \/ ts[2] # TPunct(":")
       \/ DOMAIN ts[1].c # {"lit"}
    THEN ParseFail
    ELSE LET x == parseValue(SubSeq(ts, 3, Len(ts)))
             m == (ts[1].c.lit :> x.v) @@ acc
         IN IF ~x.ok THEN ParseFail
            ELSE IF IsPunct(x.rest, "}") THEN Parsed(PyDict(m), Tail(x.rest))
            ELSE IF IsPunct(x.rest, ",") THEN parseMembers(Tail(x.rest), m)
            ELSE ParseFail

\* json.loads: a ValueError for anything but one complete document.
json_loads(text) ==
    LET x == parseValue(text)
    IN IF x.ok /\ x.rest = <<>> THEN x.v ELSE PyRaise("ValueError")

\* RowBase._desearializeHelper
RECURSIVE _desearializeHelper(_)
_desearializeHelper(d) ==
    CASE d.t \in {"list", "tuple"} ->
            LET ys == [i \in 1..Len(d.xs) |-> _desearializeHelper(d.xs[i])]
            IN IF FirstRaised(ys).t = "raise" THEN FirstRaised(ys) ELSE PyList(ys)
      [] d.t = "dict" ->
            IF Marker \in DOMAIN d.m
            THEN IF d.m[Marker] = PyStr(StrLit("datetime"))
                 THEN IF "value" \in DOMAIN d.m THEN strptime(d.m["value"])
                      ELSE PyRaise("KeyError")
                 ELSE IF d.m[Marker] = PyStr(StrLit("pickled_object"))
                 THEN IF "value" \in DOMAIN d.m THEN pickle_loads(d.m["value"])
                      ELSE PyRaise("KeyError")
                 ELSE PyNone
            ELSE LET m == [k \in DOMAIN d.m |-> _desearializeHelper(d.m[k])]
                 IN IF RaisedIn(m).t = "raise" THEN RaisedIn(m) ELSE PyDict(m)
      [] OTHER -> d

\* RowBase._desearialize
_desearialize(contents) ==
    LET loaded == json_loads(contents)
    IN IF loaded.t = "raise" THEN loaded ELSE _desearializeHelper(loaded)

\* RowBase._getPublicAttribs: the entries of __dict__ whose name does not
\* start with '_'.
InternalNames == {"_NoDBSpecialType", "_key"}

\* dict(self.__dict__.items()): every entry, the internal ones included.
_getAllAttribs(dict) == dict

_getPublicAttribs(dict) == [k \in DOMAIN dict \ InternalNames |-> dict[k]]

\* WritableRowBase._serialize
_serialize(dict) == json_dumps(_serializeHelper(PyDict(_getPublicAttribs(dict))))

\* ------------------------------------------------------------ exceptions
\* Python 2 built-in exception classes and the ones of errors.py, each with
\* its base class.
BaseOf(c) ==
    CASE c \in {"IOError", "OSError"} -> "EnvironmentError"
      [] c \in {"EnvironmentError", "ValueError", "NameError"} -> "StandardError"
      [] c \in {"StandardError", "RowAlreadyExists", "RowDoesNotExist"} -> "Exception"
      [] OTHER -> "object"

RECURSIVE IsSubclass(_, _)
IsSubclass(c, d) == c = d \/ (c # "object" /\ IsSubclass(BaseOf(c), d))

\* What open(path, 'r') and os.remove(path) raise when the path is absent.
OpenReadENOENT == "IOError"
OsRemoveENOENT == "OSError"

\* The handler as it would be with "except OSError as e".
RowOpenError_OSError(raised) ==
    IF IsSubclass(raised, "OSError") THEN "RowDoesNotExist" ELSE raised

\* RowBase.__init__: try: open(self._filename, 'r') except IOError as e
RowOpenError(raised) ==
    IF IsSubclass(raised, "IOError") THEN "RowDoesNotExist" ELSE raised

\* Table.remove: try: os.remove(...) except IOError as e
TableRemoveError(raised) ==
    IF IsSubclass(raised, "IOError") THEN "RowDoesNotExist" ELSE raised

\* Table.createWithUniqueKey: "except RowAlreadyExists:" names a class the
\* module does not define, so matching any exception raises NameError.
createWithUniqueKey_except(e) == "NameError"

\* Table.createLockedWithUniqueKey: "except errors.RowAlreadyExists: continue"
createLockedWithUniqueKey_except(e) ==
    IF IsSubclass(e, "RowAlreadyExists") THEN "continue" ELSE e

\* ----------------------------------------------------------------- state
Inodes == 1..(NKeys + 3 * NProcs)
EmptyText == <<>>
NoCall == [op |-> "none", key |-> 0]
NoEvent == [op |-> "none", key |-> 0, out |-> "ok"]
Event(op, k, e) == IF e = "ok" THEN NoEvent ELSE [op |-> op, key |-> k, out |-> e]

CreateOps == {"create", "createLocked", "createWithUniqueKey",
              "createLockedWithUniqueKey"}
UniqueOps == {"createWithUniqueKey", "createLockedWithUniqueKey"}
GetOps == {"get", "getReadOnly", "getLocked"}

\* The class each Table method constructs.
ClsOf(op) ==
    CASE op \in {"create", "createWithUniqueKey", "get"} -> "Row"
      [] op \in {"createLocked", "createLockedWithUniqueKey", "getLocked"} -> "LockedRow"
      [] op = "getWithLock" -> "RowWithLock"
      [] OTHER -> "ReadOnlyRow"

\* Row / ReadOnlyRow / LockedRow.__init__: self._is_locked
_is_locked(cls) == cls = "LockedRow"

VARIABLES
    dir,      \* the table directory: key -> inode of the row file, 0 when absent
    content,  \* inode -> text of the file
    tlock,    \* the process whose Table file object holds flock on .lock, or 0
    hist,     \* per key, the history of the row (see the actions)
    pc,       \* per process, its position in the call it is executing
    call,     \* per process, the call it is executing
    out,      \* per process, "ok" or the exception propagating in its call
    ev,       \* the exception the call completed last raised (method, key,
              \* exception), NoEvent when it returned
    ncalls,   \* the calls made so far, counted up to MaxCalls (a scenario
              \* that starts below 0 has that many more calls)
    started,  \* the processes that have made a call are 1..started
    touched,  \* the keys that calls have named are 1..touched
    updates,  \* per key, the calls of save that followed an attribute change
    wins,     \* per key, the creations returned since it was last removed
    buf,      \* per process, the local text (attribs in save, contents in load)
    hcls,     \* per process, the class of the row object it holds, or "none"
    hkey,     \* ... its _key
    hino,     \* ... the inode its _fd_lock is open on
    hlock,    \* ... the flock state of its _fd_lock
    hdict,    \* ... its public attributes
    nino,     \* per process, _fd_lock of the row object under construction
    nlock,    \* ... and its flock state
    wfd,      \* per process, the inode of the file object opened for writing
    orig      \* the attributes the caller of the codec run gave its row

budget == <<ncalls, started, touched, updates>>

vars == <<dir, content, tlock, hist, pc, call, out, ev, budget, wins, buf,
          hcls, hkey, hino, hlock, hdict, nino, nlock, wfd, orig>>

Init ==
    /\ dir = [k \in Keys |-> 0]
    /\ content = [i \in Inodes |-> EmptyText]
    /\ tlock = 0
    /\ hist = [k \in Keys |-> "never"]
    /\ pc = [p \in Procs |-> "idle"]
    /\ call = [p \in Procs |-> NoCall]
    /\ out = [p \in Procs |-> "ok"]
    /\ ev = NoEvent
    /\ ncalls = 0
    /\ started = 0
    /\ touched = 0
    /\ updates = [k \in Keys |-> 0]
    /\ wins = [k \in Keys |-> 0]
    /\ buf = [p \in Procs |-> EmptyText]
    /\ hcls = [p \in Procs |-> "none"]
    /\ hkey = [p \in Procs |-> 0]
    /\ hino = [p \in Procs |-> 0]
    /\ hlock = [p \in Procs |-> "none"]
    /\ hdict = [p \in Procs |-> EmptyMap]
    /\ nino = [p \in Procs |-> 0]
    /\ nlock = [p \in Procs |-> "none"]
    /\ wfd = [p \in Procs |-> 0]
    /\ orig = EmptyMap

\* ------------------------------------------------------------ file system
Live(i) ==
    \/ \E k \in Keys : dir[k] = i
    \/ \E p \in Procs : hino[p] = i \/ nino[p] = i \/ wfd[p] = i

FreeIno == CHOOSE i \in Inodes : ~Live(i) /\ \A j \in 1..(i - 1) : Live(j)

\* The inode open(path, 'w') yields: the file at the path, or a new one.
OpenWriteIno(k) == IF dir[k] # 0 THEN dir[k] ELSE FreeIno

\* An inode with no link and no open file object is gone.
SetContent(c) ==
    content' = [i \in Inodes |->
                  IF \/ \E k \in Keys : dir'[k] = i
                     \/ \E p \in Procs : hino'[p] = i \/ nino'[p] = i \/ wfd'[p] = i
                  THEN c[i] ELSE EmptyText]

\* ------------------------------------------------------------------ flock
\* The flock states of the other file objects open on inode i; slot names
\* the file object of p that asks ("h" held row, "n" row under construction).
OtherLocks(p, slot, i) ==
    {hlock[q] : q \in {r \in Procs : hino[r] = i /\ (r # p \/ slot # "h")}}
    \cup {nlock[q] : q \in {r \in Procs : nino[r] = i /\ (r # p \/ slot # "n")}}

\* flock(fd, LOCK_SH | LOCK_NB) with the result ignored never waits.
SharedLock_nonblocking(others) == TRUE

\* SharedLock.acquireLock: flock(fd, LOCK_SH) returns
SharedLock_acquireLock(others) == "ex" \notin others

\* flock(fd, LOCK_EX | LOCK_NB) with the result ignored never waits.
ExclusiveLock_nonblocking(others) == TRUE

\* ExclusiveLock.acquireLock: flock(fd, LOCK_EX) returns
ExclusiveLock_acquireLock(others) == others \subseteq {"none"}

\* A release that leaves the lock as it is.
releaseLock_noop(held) == held

\* LockBase.releaseLock: flock(fd, LOCK_UN)
releaseLock(held) == "none"

\* An exit that unlocks only when the with block ended without exception.
LockBase_exit_onReturn(held, e) == IF e = "ok" THEN releaseLock(held) ELSE held

\* LockBase.__exit__(type, value, traceback): releaseLock, whether the with
\* block ended normally (e = "ok") or with exception e.
LockBase_exit(held, e) == releaseLock(held)

TableOthers(p) == IF tlock \notin {0, p} THEN {"ex"} ELSE {}

\* ---------------------------------------------------------------- helpers
\* RowBase.__init__: fd.write('{}')
EmptyDoc == <<TPunct("{"), TPunct("}")>>

Set(f, p, v) == [f EXCEPT ![p] = v]

\* The row object under construction is dropped: its file object is closed.
DropNew(p) ==
    /\ nino' = Set(nino, p, 0)
    /\ nlock' = Set(nlock, p, "none")

\* The constructor returns and the caller's variable is bound to the new row
\* object; the row object it named before is deleted.
BindNew(p, d, held) ==
    /\ hcls' = Set(hcls, p, ClsOf(call[p].op))
    /\ hkey' = Set(hkey, p, call[p].key)
    /\ hino' = Set(hino, p, nino[p])
    /\ hlock' = Set(hlock, p, held)
    /\ hdict' = Set(hdict, p, d)
    /\ DropNew(p)

\* The call of p ends with outcome e ("ok" or the exception it raises).
Done(p, op, k, e) ==
    /\ pc' = Set(pc, p, "idle")
    /\ call' = Set(call, p, NoCall)
    /\ out' = Set(out, p, "ok")
    /\ ev' = Event(op, k, e)

Max(a, b) == IF a >= b THEN a ELSE b

\* Keys are interchangeable, and so are processes: a run names them in the
\* order of their first use.
NameKey(k) ==
    /\ k <= touched + 1
    /\ touched' = Max(touched, k)

\* A call is made by p on key k: the run makes MaxCalls of them.
CountCall(p, k, inc) ==
    /\ updates' = IF inc THEN [updates EXCEPT ![k] = @ + 1] ELSE updates
    /\ ncalls < MaxCalls
    /\ ncalls' = ncalls + 1
    /\ p <= started + 1
    /\ started' = Max(started, p)
    /\ NameKey(k)

\* ------------------------------------------- Table.create / createLocked
\* "with self.getExclusiveLock():" of Table.create and Table.createLocked
EnterCreate(p, op, k) ==
    /\ ExclusiveLock_acquireLock(TableOthers(p))
    /\ tlock' = p
    /\ call' = Set(call, p, [op |-> op, key |-> k])
    /\ pc' = Set(pc, p, "c_exists")
    /\ UNCHANGED <<dir, content, hist, out, ev, wins, buf, hcls, hkey, hino,
                   hlock, hdict, nino, nlock, wfd, orig>>

\* Table.create, createLocked, createWithUniqueKey, createLockedWithUniqueKey
\* are called; the unique-key methods generate a key first.
CallCreate(p, op, k) ==
    /\ pc[p] = "idle"
    /\ op \in CreateOps
    /\ CountCall(p, k, FALSE)
    /\ EnterCreate(p, op, k)

\* An existence check that finds nothing.
os_path_exists_never(k) == FALSE

\* os.path.exists(self._filename)
os_path_exists(k) == dir[k] # 0

\* RowBase.__init__, is_new: if os.path.exists(self._filename): raise
CreateExists(p) ==
    /\ pc[p] = "c_exists"
    /\ IF os_path_exists(call[p].key)
       THEN /\ out' = Set(out, p, "RowAlreadyExists")
            /\ pc' = Set(pc, p, "c_exit")
       ELSE /\ out' = out
            /\ pc' = Set(pc, p, "c_openw")
    /\ UNCHANGED <<dir, content, tlock, hist, call, ev, budget, wins, buf, hcls,
                   hkey, hino, hlock, hdict, nino, nlock, wfd, orig>>

\* RowBase.__init__, is_new: open(self._filename, 'w')
CreateOpenW(p) ==
    /\ pc[p] = "c_openw"
    /\ LET k == call[p].key
           i == OpenWriteIno(k)
       IN /\ dir' = [dir EXCEPT ![k] = i]
          /\ wfd' = Set(wfd, p, i)
          /\ hist' = [hist EXCEPT ![k] =
                        IF @ \in {"never", "created"} THEN "created" ELSE "recreated"]
          /\ pc' = Set(pc, p, "c_write")
          /\ UNCHANGED <<tlock, call, out, ev, budget, wins, buf, hcls, hkey,
                         hino, hlock, hdict, nino, nlock, orig>>
          /\ SetContent([content EXCEPT ![i] = EmptyText])

\* RowBase.__init__, is_new: fd.write('{}') and the close that ends the with
CreateWrite(p) ==
    /\ pc[p] = "c_write"
    /\ wfd' = Set(wfd, p, 0)
    /\ pc' = Set(pc, p, "c_openr")
    /\ UNCHANGED <<dir, tlock, hist, call, out, ev, budget, wins, buf, hcls,
                   hkey, hino, hlock, hdict, nino, nlock, orig>>
    /\ SetContent([content EXCEPT ![wfd[p]] = EmptyDoc])

\* RowBase.__init__: open(self._filename, 'r') on the creation path
CreateOpenR(p) ==
    /\ pc[p] = "c_openr"
    /\ LET k == call[p].key
       IN IF dir[k] = 0
          THEN /\ out' = Set(out, p, RowOpenError(OpenReadENOENT))
               /\ pc' = Set(pc, p, "c_exit")
               /\ nino' = nino
          ELSE /\ out' = out
               /\ nino' = Set(nino, p, dir[k])
               /\ pc' = Set(pc, p, IF _is_locked(ClsOf(call[p].op))
                                   THEN "c_rowlock" ELSE "c_exit")
    /\ UNCHANGED <<dir, content, tlock, hist, call, ev, budget, wins, buf, hcls,
                   hkey, hino, hlock, hdict, nlock, wfd, orig>>

\* RowBase.__init__: self.getExclusiveLock().acquireLock() on the creation path
CreateRowLock(p) ==
    /\ pc[p] = "c_rowlock"
    /\ ExclusiveLock_acquireLock(OtherLocks(p, "n", nino[p]))
    /\ nlock' = Set(nlock, p, "ex")
    /\ pc' = Set(pc, p, "c_exit")
    /\ UNCHANGED <<dir, content, tlock, hist, call, out, ev, budget, wins, buf,
                   hcls, hkey, hino, hlock, hdict, nino, wfd, orig>>

\* What the caller of Table.create / createLocked does with exception e.
CreateHandler(op, e) ==
    CASE op = "createWithUniqueKey" -> createWithUniqueKey_except(e)
      [] op = "createLockedWithUniqueKey" -> createLockedWithUniqueKey_except(e)
      [] OTHER -> e

\* The with statement of Table.create / createLocked ends (the table lock is
\* released), then the method returns the row or the exception propagates.
CreateExit(p) ==
    /\ pc[p] = "c_exit"
    /\ tlock' = IF LockBase_exit("ex", out[p]) = "none" THEN 0 ELSE tlock
    /\ LET op == call[p].op
           k == call[p].key
       IN IF out[p] = "ok"
          THEN /\ BindNew(p, EmptyMap, nlock[p])
               /\ Done(p, op, k, "ok")
               /\ wins' = [wins EXCEPT ![k] = IF @ < MaxWins THEN @ + 1 ELSE @]
          ELSE /\ DropNew(p)
               /\ UNCHANGED <<hcls, hkey, hino, hlock, hdict, wins>>
               /\ LET e == CreateHandler(op, out[p])
                  IN IF e = "continue"
                     THEN /\ pc' = Set(pc, p, "u_retry")
                          /\ out' = Set(out, p, "ok")
                          /\ UNCHANGED <<call, ev>>
                     ELSE Done(p, op, k, e)
    /\ UNCHANGED <<dir, hist, budget, buf, wfd, orig>>
    /\ SetContent(content)

\* createLockedWithUniqueKey: continue; a new key, and createLocked again
UniqueRetry(p, k) ==
    /\ pc[p] = "u_retry"
    /\ NameKey(k)
    /\ UNCHANGED <<ncalls, started, updates>>
    /\ EnterCreate(p, call[p].op, k)

\* ------------------------------- Table.get / getReadOnly / getLocked, load
\* Table.get, getReadOnly, getLocked are called; RowBase.__init__:
\* open(self._filename, 'r')
CallGet(p, op, k) ==
    /\ pc[p] = "idle"
    /\ op \in GetOps
    /\ CountCall(p, k, FALSE)
    /\ IF dir[k] = 0
       THEN /\ ev' = Event(op, k, RowOpenError(OpenReadENOENT))
            /\ UNCHANGED <<pc, call, nino>>
       ELSE /\ call' = Set(call, p, [op |-> op, key |-> k])
            /\ nino' = Set(nino, p, dir[k])
            /\ pc' = Set(pc, p, IF _is_locked(ClsOf(op)) THEN "g_rowlock"
                                                        ELSE "l_shlock")
            /\ ev' = ev
    /\ UNCHANGED <<dir, content, tlock, hist, out, wins, buf, hcls, hkey, hino,
                   hlock, hdict, nlock, wfd, orig>>

\* RowBase.__init__: if self._is_locked: self.getExclusiveLock().acquireLock()
GetRowLock(p) ==
    /\ pc[p] = "g_rowlock"
    /\ ExclusiveLock_acquireLock(OtherLocks(p, "n", nino[p]))
    /\ nlock' = Set(nlock, p, "ex")
    /\ pc' = Set(pc, p, "l_read")
    /\ UNCHANGED <<dir, content, tlock, hist, call, out, ev, budget, wins, buf,
                   hcls, hkey, hino, hlock, hdict, nino, wfd, orig>>

\* RowBase._loadContents: with self.getSharedLock(): (entry)
LoadSharedLock(p) ==
    /\ pc[p] = "l_shlock"
    /\ SharedLock_acquireLock(OtherLocks(p, "n", nino[p]))
    /\ nlock' = Set(nlock, p, "sh")
    /\ pc' = Set(pc, p, "l_read")
    /\ UNCHANGED <<dir, content, tlock, hist, call, out, ev, budget, wins, buf,
                   hcls, hkey, hino, hlock, hdict, nino, wfd, orig>>

\* RowBase._loadContents: contents = self._fd_readonly.read()
LoadRead(p) ==
    /\ pc[p] = "l_read"
    /\ buf' = Set(buf, p, content[nino[p]])
    /\ pc' = Set(pc, p, "l_exit")
    /\ UNCHANGED <<dir, content, tlock, hist, call, out, ev, budget, wins, hcls,
                   hkey, hino, hlock, hdict, nino, nlock, wfd, orig>>

\* RowBase._loadContents: the flock state of the row's file object after the
\* read: the with statement of the unlocked branch releases it.
LoadExitLock(cls, held) == IF _is_locked(cls) THEN held ELSE releaseLock(held)

\* RowBase._loadContents: self.__dict__.update(contents), as an exception
\* name or "ok".
UpdateError(contents) ==
    IF contents.t = "raise" THEN contents.e
    ELSE IF contents.t # "dict" THEN "TypeError"
    ELSE "ok"

\* RowBase._loadContents: the end of the with statement (unlocked rows), then
\* _desearialize and __dict__.update; the constructor returns or raises.
LoadExit(p) ==
    /\ pc[p] = "l_exit"
    /\ LET contents == _desearialize(buf[p])
           e == UpdateError(contents)
           held == LoadExitLock(ClsOf(call[p].op), nlock[p])
       IN /\ IF e = "ok"
             THEN BindNew(p, contents.m, held)
             ELSE /\ DropNew(p)
                  /\ UNCHANGED <<hcls, hkey, hino, hlock, hdict>>
          /\ Done(p, call[p].op, call[p].key, e)
    /\ buf' = Set(buf, p, EmptyText)
    /\ UNCHANGED <<dir, tlock, hist, budget, wins, wfd, orig>>
    /\ SetContent(content)

\* ------------------------------------------------- WritableRowBase.save
Writable(cls) == cls \in {"Row", "LockedRow", "RowWithLock"}

CountOf(d) == IF "count" \in DOMAIN d THEN d["count"].n ELSE 0

\* RowBase.__init__: self._key = key, the internal entry of __dict__ the
\* model keeps beside the public attributes.
InternalFields(p) == "_key" :> PyStr([rowkey |-> hkey[p]])

\* The attributes after the caller's "row.count = row.count + 1" (from 0 when
\* the row has no count yet).
Incremented(d) == ("count" :> PyInt(CountOf(d) + 1)) @@ d

\* The caller sets attributes or not (inc), then calls save: attribs =
\* self._serialize(), which rewrites the dicts nested in the attributes in
\* place, then "with self.getExclusiveLock():"
Save(p, inc) ==
    /\ pc[p] = "idle"
    /\ Writable(hcls[p])
    /\ inc => CountOf(hdict[p]) < MaxCount
    /\ CountCall(p, hkey[p], inc)
    /\ ExclusiveLock_acquireLock(OtherLocks(p, "h", hino[p]))
    /\ LET d == IF inc THEN Incremented(hdict[p]) ELSE hdict[p]
       IN /\ buf' = Set(buf, p, _serialize(InternalFields(p) @@ d))
          /\ hdict' = Set(hdict, p, [k \in DOMAIN d |->
                                       IF k \in InternalNames THEN d[k]
                                       ELSE SerializedInPlace(d[k])])
    /\ call' = Set(call, p, [op |-> "save", key |-> hkey[p]])
    /\ hlock' = Set(hlock, p, "ex")
    /\ pc' = Set(pc, p, "s_openw")
    /\ UNCHANGED <<dir, content, tlock, hist, out, ev, wins, hcls, hkey, hino,
                   nino, nlock, wfd, orig>>

\* save: open(self._filename, 'w'), which makes the file when the path is
\* absent and truncates it otherwise
SaveOpenW(p) ==
    /\ pc[p] = "s_openw"
    /\ LET k == hkey[p]
           i == OpenWriteIno(k)
       IN /\ dir' = [dir EXCEPT ![k] = i]
          /\ wfd' = Set(wfd, p, i)
          /\ hist' = [hist EXCEPT ![k] = IF dir[k] = 0 THEN "resurrected" ELSE @]
          /\ pc' = Set(pc, p, "s_write")
          /\ UNCHANGED <<tlock, call, out, ev, budget, wins, buf, hcls, hkey,
                         hino, hlock, hdict, nino, nlock, orig>>
          /\ SetContent([content EXCEPT ![i] = EmptyText])

\* save: open(self._filename, 'w') fails (the table directory is gone, the
\* disk is full, ...) and the IOError propagates through the with statement
SaveOpenFails(p) ==
    /\ pc[p] = "s_openw"
    /\ out' = Set(out, p, "IOError")
    /\ pc' = Set(pc, p, "s_unlock")
    /\ UNCHANGED <<dir, content, tlock, hist, call, ev, budget, wins, buf, hcls,
                   hkey, hino, hlock, hdict, nino, nlock, wfd, orig>>

\* save: fd.write(attribs) and the close that ends the inner with
SaveWrite(p) ==
    /\ pc[p] = "s_write"
    /\ wfd' = Set(wfd, p, 0)
    /\ pc' = Set(pc, p, "s_unlock")
    /\ UNCHANGED <<dir, tlock, hist, call, out, ev, budget, wins, buf, hcls,
                   hkey, hino, hlock, hdict, nino, nlock, orig>>
    /\ SetContent([content EXCEPT ![wfd[p]] = buf[p]])

\* save: the end of "with self.getExclusiveLock():", LockBase.__exit__, then
\* save returns or the exception propagates
SaveUnlock(p) ==
    /\ pc[p] = "s_unlock"
    /\ hlock' = Set(hlock, p, releaseLock(hlock[p]))
    /\ Done(p, "save", hkey[p], out[p])
    /\ buf' = Set(buf, p, EmptyText)
    /\ UNCHANGED <<dir, content, tlock, hist, budget, wins, hcls, hkey, hino,
                   hdict, nino, nlock, wfd, orig>>

\* ------------------------------------------------------------ Table.remove
\* os.remove(path) of an existing file: the directory after it
os_remove(d, k) == [d EXCEPT ![k] = 0]

Remove(p, k) ==
    /\ pc[p] = "idle"
    /\ CountCall(p, k, FALSE)
    /\ IF dir[k] # 0
       THEN /\ dir' = os_remove(dir, k)
            /\ hist' = [hist EXCEPT ![k] = "removed"]
            /\ ev' = Event("remove", k, "ok")
       ELSE /\ ev' = Event("remove", k, TableRemoveError(OsRemoveENOENT))
            /\ UNCHANGED <<dir, hist>>
    /\ UNCHANGED <<tlock, pc, call, out, wins, buf, hcls, hkey, hino, hlock,
                   hdict, nino, nlock, wfd, orig>>
    /\ SetContent(content)

\* ------------------------------------------------- the caller's own steps
\* del row: NoDBBase.__del__ releases the lock and the file object is closed
Dispose(p) ==
    /\ pc[p] = "idle"
    /\ hcls[p] # "none"
    /\ hcls' = Set(hcls, p, "none")
    /\ hkey' = Set(hkey, p, 0)
    /\ hino' = Set(hino, p, 0)
    /\ hlock' = Set(hlock, p, releaseLock(hlock[p]))
    /\ hdict' = Set(hdict, p, EmptyMap)
    /\ UNCHANGED <<dir, tlock, hist, pc, call, out, ev, budget, wins, buf, nino,
                   nlock, wfd, orig>>
    /\ SetContent(content)

Next ==
    \/ \E p \in Procs, op \in CreateOps, k \in Keys : CallCreate(p, op, k)
    \/ \E p \in Procs : CreateExists(p)
    \/ \E p \in Procs : CreateOpenW(p)
    \/ \E p \in Procs : CreateWrite(p)
    \/ \E p \in Procs : CreateOpenR(p)
    \/ \E p \in Procs : CreateRowLock(p)
    \/ \E p \in Procs : CreateExit(p)
    \/ \E p \in Procs, k \in Keys : UniqueRetry(p, k)
    \/ \E p \in Procs, op \in GetOps, k \in Keys : CallGet(p, op, k)
    \/ \E p \in Procs : GetRowLock(p)
    \/ \E p \in Procs : LoadSharedLock(p)
    \/ \E p \in Procs : LoadRead(p)
    \/ \E p \in Procs : LoadExit(p)
    \/ \E p \in Procs, inc \in BOOLEAN : Save(p, inc)
    \/ \E p \in Procs : SaveOpenW(p)
    \/ \E p \in Procs : SaveOpenFails(p)
    \/ \E p \in Procs : SaveWrite(p)
    \/ \E p \in Procs : SaveUnlock(p)
    \/ \E p \in Procs, k \in Keys : Remove(p, k)
    \/ \E p \in Procs : Dispose(p)

Spec == Init /\ [][Next]_vars

\* ------------------------------------------------ the codec specification
\* A row of key 1 exists and process 1 holds the Row that create returned; the
\* caller has set its attributes.  Process 1 saves it, then process 2 opens it.
CodecAtoms ==
    {PyNone, PyBool(TRUE), PyInt(1), PyStr(StrLit("x")), PyDatetime(1, 0),
     PyDatetime(1, 1), PyObject(1)}

SeqsOf(S) == UNION {[1..n -> S] : n \in 0..MaxLen}

MapsOf(K, S) ==
    UNION {[D -> S] : D \in {X \in SUBSET K : Cardinality(X) <= MaxLen}}

CodecNested ==
    CodecAtoms
    \cup {PyList(xs) : xs \in SeqsOf(CodecAtoms)}
    \cup {PyDict(m) : m \in MapsOf({"when", "value"}, CodecAtoms)}

CodecValues ==
    CodecNested
    \cup {PyList(xs) : xs \in SeqsOf(CodecNested)}
    \cup {PyDict(m) : m \in MapsOf({"when", "value"}, CodecNested)}

CodecInputs == MapsOf({"a"}, CodecValues)

\* Mappings that carry the marker field, as a caller can store them in an
\* attribute: with a known or an unknown marker, with or without a value.
KnownMarkers == {PyStr(StrLit("datetime")), PyStr(StrLit("pickled_object"))}

MarkerValues == KnownMarkers \cup {PyStr(StrLit("other")), PyInt(1), PyNone}

EnvelopeValues ==
    {PyStr(StrCtime(1)), PyStr(StrPickle(PyObject(1))), PyStr(StrLit("x")),
     PyInt(1)}

Envelopes ==
    {PyDict(Marker :> mv) : mv \in MarkerValues}
    \cup {PyDict((Marker :> mv) @@ ("value" :> v)) :
            mv \in MarkerValues, v \in EnvelopeValues}

EnvelopeInputs ==
    {("a" :> e) : e \in Envelopes}
    \cup {("a" :> PyList(xs)) : xs \in SeqsOf(Envelopes)}

\* The state after create(1) by process 1 and the caller's assignments.
CodecStart(inputs) ==
    /\ orig \in inputs
    /\ dir = [k \in Keys |-> IF k = 1 THEN 1 ELSE 0]
    /\ content = [i \in Inodes |-> IF i = 1 THEN EmptyDoc ELSE EmptyText]
    /\ tlock = 0
    /\ hist = [k \in Keys |-> IF k = 1 THEN "created" ELSE "never"]
    /\ pc = [p \in Procs |-> "idle"]
    /\ call = [p \in Procs |-> NoCall]
    /\ out = [p \in Procs |-> "ok"]
    /\ ev = NoEvent
    /\ ncalls = 1
    /\ started = 1
    /\ touched = 1
    /\ updates = [k \in Keys |-> 0]
    /\ wins = [k \in Keys |-> IF k = 1 THEN 1 ELSE 0]
    /\ buf = [p \in Procs |-> EmptyText]
    /\ hcls = [p \in Procs |-> IF p = 1 THEN "Row" ELSE "none"]
    /\ hkey = [p \in Procs |-> IF p = 1 THEN 1 ELSE 0]
    /\ hino = [p \in Procs |-> IF p = 1 THEN 1 ELSE 0]
    /\ hlock = [p \in Procs |-> "none"]
    /\ hdict = [p \in Procs |-> IF p = 1 THEN orig ELSE EmptyMap]
    /\ nino = [p \in Procs |-> 0]
    /\ nlock = [p \in Procs |-> "none"]
    /\ wfd = [p \in Procs |-> 0]

CodecInit == CodecStart(CodecInputs)

CodecSave == ncalls = 1 /\ Save(1, FALSE)

CodecOpen(op) == ncalls = 2 /\ pc[1] = "idle" /\ CallGet(2, op, 1)

CodecNext ==
    \/ CodecSave
    \/ SaveOpenW(1)
    \/ SaveWrite(1)
    \/ SaveUnlock(1)
    \/ \E op \in GetOps : CodecOpen(op)
    \/ GetRowLock(2)
    \/ LoadSharedLock(2)
    \/ LoadRead(2)
    \/ LoadExit(2)

CodecSpec == CodecInit /\ [][CodecNext]_vars

EnvelopeInit == CodecStart(EnvelopeInputs)

EnvelopeSpec == EnvelopeInit /\ [][CodecNext]_vars

\* ------------------------------------------- the package's own Table, Row
\* src/__init__.py has one Row class, whose constructor takes is_locked.  A
\* Row made by getWithLock is "RowWithLock" until the caller calls
\* releaseLock on it, and "Row" from then on.
PkgGetOps == {"get", "getWithLock"}

\* Table.create is called.
PkgCallCreate(p, k) == CallCreate(p, "create", k)

\* Row.__init__, is_new: open(self._filename, 'w').close() writes nothing
PkgCreateClose(p) ==
    /\ pc[p] = "c_write"
    /\ wfd' = Set(wfd, p, 0)
    /\ pc' = Set(pc, p, "c_openr")
    /\ UNCHANGED <<dir, tlock, hist, call, out, ev, budget, wins, buf, hcls,
                   hkey, hino, hlock, hdict, nino, nlock, orig>>
    /\ SetContent(content)

\* Table.get, getWithLock are called; Row.__init__: open(self._filename, 'r')
PkgCallGet(p, op, k) ==
    /\ pc[p] = "idle"
    /\ op \in PkgGetOps
    /\ CountCall(p, k, FALSE)
    /\ IF dir[k] = 0
       THEN /\ ev' = Event(op, k, RowOpenError(OpenReadENOENT))
            /\ UNCHANGED <<pc, call, nino>>
       ELSE /\ call' = Set(call, p, [op |-> op, key |-> k])
            /\ nino' = Set(nino, p, dir[k])
            /\ pc' = Set(pc, p, IF op = "getWithLock" THEN "g_rowlock"
                                                      ELSE "l_shlock")
            /\ ev' = ev
    /\ UNCHANGED <<dir, content, tlock, hist, out, wins, buf, hcls, hkey, hino,
                   hlock, hdict, nlock, wfd, orig>>

\* Row.__init__: if is_locked: self.getExclusiveLock().acquireLock(), and
\* _loadContents follows
PkgGetRowLock(p) ==
    /\ pc[p] = "g_rowlock"
    /\ ExclusiveLock_acquireLock(OtherLocks(p, "n", nino[p]))
    /\ nlock' = Set(nlock, p, "ex")
    /\ pc' = Set(pc, p, "l_shlock")
    /\ UNCHANGED <<dir, content, tlock, hist, call, out, ev, budget, wins, buf,
                   hcls, hkey, hino, hlock, hdict, nino, wfd, orig>>

\* Row._loadContents: the end of "with self.getSharedLock():", which unlocks
\* the file object whatever lock it held, then _desearialize and update
PkgLoadExit(p) ==
    /\ pc[p] = "l_exit"
    /\ LET contents == _desearialize(buf[p])
           e == UpdateError(contents)
           held == releaseLock(nlock[p])
       IN /\ IF e = "ok"
             THEN BindNew(p, contents.m, held)
             ELSE /\ DropNew(p)
                  /\ UNCHANGED <<hcls, hkey, hino, hlock, hdict>>
          /\ Done(p, call[p].op, call[p].key, e)
    /\ buf' = Set(buf, p, EmptyText)
    /\ UNCHANGED <<dir, tlock, hist, budget, wins, wfd, orig>>
    /\ SetContent(content)

\* NoDBBase.releaseLock, called by the user on a row
PkgReleaseLock(p) ==
    /\ pc[p] = "idle"
    /\ hcls[p] = "RowWithLock"
    /\ hcls' = Set(hcls, p, "Row")
    /\ hlock' = Set(hlock, p, releaseLock(hlock[p]))
    /\ UNCHANGED <<dir, content, tlock, hist, pc, call, out, ev, budget, wins,
                   buf, hkey, hino, hdict, nino, nlock, wfd, orig>>

PkgNext ==
    \/ \E p \in Procs, k \in Keys : PkgCallCreate(p, k)
    \/ \E p \in Procs : CreateExists(p)
    \/ \E p \in Procs : CreateOpenW(p)
    \/ \E p \in Procs : PkgCreateClose(p)
    \/ \E p \in Procs : CreateOpenR(p)
    \/ \E p \in Procs : CreateExit(p)
    \/ \E p \in Procs, op \in PkgGetOps, k \in Keys : PkgCallGet(p, op, k)
    \/ \E p \in Procs : PkgGetRowLock(p)
    \/ \E p \in Procs : LoadSharedLock(p)
    \/ \E p \in Procs : LoadRead(p)
    \/ \E p \in Procs : PkgLoadExit(p)
    \/ \E p \in Procs, inc \in BOOLEAN : Save(p, inc)
    \/ \E p \in Procs : SaveOpenW(p)
    \/ \E p \in Procs : SaveWrite(p)
    \/ \E p \in Procs : SaveUnlock(p)
    \/ \E p \in Procs : PkgReleaseLock(p)
    \/ \E p \in Procs, k \in Keys : Remove(p, k)
    \/ \E p \in Procs : Dispose(p)

PkgSpec == Init /\ [][PkgNext]_vars

\* ------------------------------------- updates through locked rows only
\* The row of key 1 exists and holds the empty mapping; its creator has let
\* go of it.  Every process opens the row with getLocked, changes the counter
\* and saves, any number of times, and deletes its row object.  A run makes
\* UpdateCalls calls.
UpdateInit ==
    /\ dir = [k \in Keys |-> IF k = 1 THEN 1 ELSE 0]
    /\ content = [i \in Inodes |-> IF i = 1 THEN EmptyDoc ELSE EmptyText]
    /\ tlock = 0
    /\ hist = [k \in Keys |-> IF k = 1 THEN "created" ELSE "never"]
    /\ pc = [p \in Procs |-> "idle"]
    /\ call = [p \in Procs |-> NoCall]
    /\ out = [p \in Procs |-> "ok"]
    /\ ev = NoEvent
    /\ ncalls = MaxCalls - UpdateCalls
    /\ started = 0
    /\ touched = 1
    /\ updates = [k \in Keys |-> 0]
    /\ wins = [k \in Keys |-> IF k = 1 THEN 1 ELSE 0]
    /\ buf = [p \in Procs |-> EmptyText]
    /\ hcls = [p \in Procs |-> "none"]
    /\ hkey = [p \in Procs |-> 0]
    /\ hino = [p \in Procs |-> 0]
    /\ hlock = [p \in Procs |-> "none"]
    /\ hdict = [p \in Procs |-> EmptyMap]
    /\ nino = [p \in Procs |-> 0]
    /\ nlock = [p \in Procs |-> "none"]
    /\ wfd = [p \in Procs |-> 0]
    /\ orig = EmptyMap

UpdateOpen(p) == CallGet(p, "getLocked", 1)

UpdateNext ==
    \/ \E p \in Procs : UpdateOpen(p)
    \/ \E p \in Procs : GetRowLock(p)
    \/ \E p \in Procs : LoadRead(p)
    \/ \E p \in Procs : LoadExit(p)
    \/ \E p \in Procs, inc \in BOOLEAN : Save(p, inc)
    \/ \E p \in Procs : SaveOpenW(p)
    \/ \E p \in Procs : SaveWrite(p)
    \/ \E p \in Procs : SaveUnlock(p)
    \/ \E p \in Procs : Dispose(p)

UpdateSpec == UpdateInit /\ [][UpdateNext]_vars

\* ----------------------------------------- calls that wait for the table
\* In Spec a create is called when its table lock is granted.  Here the call
\* is made first and the process then waits in LockBase.__enter__, so that a
\* process waiting for the table lock is a state.
WaitCreate(p, op, k) ==
    /\ call' = Set(call, p, [op |-> op, key |-> k])
    /\ pc' = Set(pc, p, "c_lock")
    /\ UNCHANGED <<dir, content, tlock, hist, out, ev, wins, buf, hcls, hkey,
                   hino, hlock, hdict, nino, nlock, wfd, orig>>

\* Table.create, createLocked, createWithUniqueKey, createLockedWithUniqueKey
\* are called.
CallCreateWait(p, op, k) ==
    /\ pc[p] = "idle"
    /\ op \in CreateOps
    /\ CountCall(p, k, FALSE)
    /\ WaitCreate(p, op, k)

\* "with self.getExclusiveLock():" of Table.create and Table.createLocked:
\* LockBase.__enter__ returns when the table lock is granted
CreateTableLock(p) ==
    /\ pc[p] = "c_lock"
    /\ ExclusiveLock_acquireLock(TableOthers(p))
    /\ tlock' = p
    /\ pc' = Set(pc, p, "c_exists")
    /\ UNCHANGED <<dir, content, hist, call, out, ev, budget, wins, buf, hcls,
                   hkey, hino, hlock, hdict, nino, nlock, wfd, orig>>

\* createLockedWithUniqueKey: continue; a new key, and createLocked again
UniqueRetryWait(p, k) ==
    /\ pc[p] = "u_retry"
    /\ NameKey(k)
    /\ UNCHANGED <<ncalls, started, updates>>
    /\ WaitCreate(p, call[p].op, k)

WaitNext ==
    \/ \E p \in Procs, op \in CreateOps, k \in Keys : CallCreateWait(p, op, k)
    \/ \E p \in Procs : CreateTableLock(p)
    \/ \E p \in Procs : CreateExists(p)
    \/ \E p \in Procs : CreateOpenW(p)
    \/ \E p \in Procs : CreateWrite(p)
    \/ \E p \in Procs : CreateOpenR(p)
    \/ \E p \in Procs : CreateRowLock(p)
    \/ \E p \in Procs : CreateExit(p)
    \/ \E p \in Procs, k \in Keys : UniqueRetryWait(p, k)
    \/ \E p \in Procs, op \in GetOps, k \in Keys : CallGet(p, op, k)
    \/ \E p \in Procs : GetRowLock(p)
    \/ \E p \in Procs : LoadSharedLock(p)
    \/ \E p \in Procs : LoadRead(p)
    \/ \E p \in Procs : LoadExit(p)
    \/ \E p \in Procs, inc \in BOOLEAN : Save(p, inc)
    \/ \E p \in Procs : SaveOpenW(p)
    \/ \E p \in Procs : SaveOpenFails(p)
    \/ \E p \in Procs : SaveWrite(p)
    \/ \E p \in Procs : SaveUnlock(p)
    \/ \E p \in Procs, k \in Keys : Remove(p, k)
    \/ \E p \in Procs : Dispose(p)

WaitSpec == Init /\ [][WaitNext]_vars

\* ------------------------------------------------------------- properties
\* The file objects a process has open on row files: the one of the row it
\* holds (h) and the one of the row under construction (n).
Handles == Procs \X {"h", "n"}

InoOf(h) == IF h[2] = "h" THEN hino[h[1]] ELSE nino[h[1]]

LockOf(h) == IF h[2] = "h" THEN hlock[h[1]] ELSE nlock[h[1]]

\* No remove has succeeded on any key so far.
NoRemoveYet == \A k \in Keys : hist[k] \in {"never", "created"}

\* Process p is in a create that found the key absent.
PassedCheck(p) ==
    \/ pc[p] \in {"c_openw", "c_write", "c_openr", "c_rowlock"}
    \/ pc[p] = "c_exit" /\ out[p] # "RowAlreadyExists"

\* C1: a LockedRow holds the exclusive lock on its row at every moment from
\* the return of its constructor to its disposal, during and after any save.
C1_LockedRowKeepsLock ==
    \A p \in Procs : hcls[p] = "LockedRow" => hlock[p] = "ex"

\* C2: among concurrent creates of one key, two never both pass the existence
\* check, at most one returns a row, and every other one that ends fails with
\* RowAlreadyExists while the row of the one that passed the check is there.
C2_CreateAtomic ==
    /\ \A p, q \in Procs :
         p # q /\ PassedCheck(p) /\ PassedCheck(q) => call[p].key # call[q].key
    /\ \A k \in Keys : hist[k] \in {"never", "created"} => wins[k] <= 1
    /\ ev.op \in {"create", "createLocked"} /\ hist[ev.key] \in {"never", "created"}
         => /\ ev.out = "RowAlreadyExists"
            /\ dir[ev.key] # 0
            /\ \/ wins[ev.key] = 1
               \/ \E p \in Procs : PassedCheck(p) /\ call[p].key = ev.key

\* A create of key 1 has failed with RowAlreadyExists after another returned
\* the row.
C2_Witness ==
    /\ ev = [op |-> "create", key |-> 1, out |-> "RowAlreadyExists"]
    /\ wins[1] = 1
    /\ hist[1] = "created"

\* C3: while only create, get, getReadOnly, getLocked and save have run, the
\* text a load has read is a complete document: it parses to a mapping.
C3_LoadReadsCompleteDocument ==
    \A p \in Procs :
        pc[p] = "l_exit" /\ NoRemoveYet => json_loads(buf[p]).t = "dict"

\* C4: when a file object holds the exclusive lock on a row file, no other
\* file object open on that file holds a shared or an exclusive lock.
C4_LockCompatibility ==
    \A h1, h2 \in Handles :
        h1 # h2 /\ InoOf(h1) # 0 /\ InoOf(h1) = InoOf(h2) /\ LockOf(h1) = "ex"
            => LockOf(h2) = "none"

\* A row is held under the exclusive lock while another process, which has
\* the same file open, waits for its lock.
C4_Witness ==
    \E p, q \in Procs :
        /\ p # q
        /\ hino[p] # 0 /\ hino[p] = nino[q]
        /\ hlock[p] = "ex"
        /\ pc[q] \in {"l_shlock", "g_rowlock"}
        /\ nlock[q] = "none"

\* C5: a Row or ReadOnlyRow holds the exclusive lock exactly while its save
\* runs and no lock otherwise; an unlocked row under construction holds the
\* shared lock exactly while it reads, and none on the creation path.
C5_UnlockedRowLocksOnlyInside ==
    \A p \in Procs :
        /\ hcls[p] \in {"Row", "ReadOnlyRow"}
             => hlock[p] = IF pc[p] \in {"s_openw", "s_write", "s_unlock"}
                           THEN "ex" ELSE "none"
        /\ pc[p] \in {"l_shlock", "l_read", "l_exit"}
             /\ ~_is_locked(ClsOf(call[p].op))
             => nlock[p] = IF pc[p] = "l_shlock" THEN "none" ELSE "sh"
        /\ pc[p] \in {"c_exists", "c_openw", "c_write", "c_openr", "c_exit"}
             /\ ~_is_locked(ClsOf(call[p].op))
             => nlock[p] = "none"

\* A save has raised and the Row it was called on holds no lock.
C5_Witness ==
    /\ ev.op = "save" /\ ev.out = "IOError"
    /\ \E p \in Procs :
         /\ pc[p] = "idle"
         /\ hcls[p] = "Row"
         /\ hkey[p] = ev.key
         /\ hlock[p] = "none"

\* C6: the file of key k is present exactly when a create has made it and no
\* remove has succeeded since.
C6_FileIffRowExists ==
    \A k \in Keys : dir[k] # 0 <=> hist[k] \in {"created", "recreated"}

\* C7: when the last thing that happened to key k is a successful remove, a
\* get, getReadOnly or getLocked of k fails with RowDoesNotExist and binds no
\* row, a create of k passes the existence check and writes the empty
\* mapping, and the row a create returns has no attributes.
C7_NoTombstone ==
    [][\A p \in Procs :
         /\ \A k \in Keys, op \in GetOps :
              hist[k] = "removed" /\ CallGet(p, op, k)
                => /\ ev' = [op |-> op, key |-> k, out |-> "RowDoesNotExist"]
                   /\ pc'[p] = "idle"
                   /\ hcls' = hcls /\ hdict' = hdict
         /\ pc[p] = "c_exists" /\ hist[call[p].key] = "removed" /\ CreateExists(p)
              => pc'[p] = "c_openw"
         /\ pc[p] = "c_write" /\ dir[call[p].key] = wfd[p] /\ CreateWrite(p)
              => content'[wfd[p]] = EmptyDoc
         /\ pc[p] = "c_exit" /\ out[p] = "ok" /\ CreateExit(p)
              => /\ hkey'[p] = call[p].key
                 /\ hdict'[p] = EmptyMap
    ]_vars

\* Key 1 was created, removed and created again: the second create returned
\* a row without attributes over a file that holds the empty mapping.
C7_Witness ==
    /\ hist[1] = "recreated"
    /\ wins[1] = 2
    /\ dir[1] # 0
    /\ content[dir[1]] = EmptyDoc
    /\ \E p \in Procs :
         pc[p] = "idle" /\ hkey[p] = 1 /\ hino[p] = dir[1] /\ hdict[p] = EmptyMap

\* C8: Table.remove of a key whose file is absent fails with RowDoesNotExist
\* and leaves the directory and the files as they were.
C8_RemoveAbsentRaisesRowDoesNotExist ==
    [][\A p \in Procs, k \in Keys :
         dir[k] = 0 /\ Remove(p, k)
           => /\ ev' = [op |-> "remove", key |-> k, out |-> "RowDoesNotExist"]
              /\ dir' = dir
              /\ content' = content
    ]_vars

\* C9: when the key a unique-key create generated is taken, the call goes on
\* to another key instead of raising, and the row it returns is of a key
\* whose file the call made.
C9_UniqueKeyRetries ==
    [][\A p \in Procs :
         pc[p] = "c_exit" /\ call[p].op \in UniqueOps /\ CreateExit(p)
           => /\ out[p] = "RowAlreadyExists" => pc'[p] = "u_retry" /\ ev' = ev
              /\ out[p] = "ok"
                   => /\ hkey'[p] = call[p].key
                      /\ NoRemoveYet => dir[call[p].key] # 0
    ]_vars

\* C10: the row re-opened after a save shows the attribute values that were
\* saved.
C10_RoundTrip ==
    pc[2] = "idle" /\ ncalls = 3 => hcls[2] # "none" /\ hdict[2] = orig

\* The value v is a mapping with the marker field and an unknown marker.
IsUnknownEnvelope(v) ==
    v.t = "dict" /\ Marker \in DOMAIN v.m /\ v.m[Marker] \notin KnownMarkers

\* C11: re-opening a row whose saved attribute is a mapping with the marker
\* field and an unknown marker (or a sequence of such mappings) fails with
\* UnsupportedTypeError and returns no row.
C11_UnknownMarkerRaises ==
    /\ pc[2] = "idle" /\ ncalls = 3
    /\ \/ IsUnknownEnvelope(orig["a"])
       \/ /\ orig["a"].t = "list"
          /\ orig["a"].xs # <<>>
          /\ \A i \in DOMAIN orig["a"].xs : IsUnknownEnvelope(orig["a"].xs[i])
    => /\ hcls[2] = "none"
       /\ ev.op \in GetOps
       /\ ev.out = "UnsupportedTypeError"

\* The names of the top-level mapping a text holds.
StoredNames(text) ==
    LET v == json_loads(text) IN IF v.t = "dict" THEN DOMAIN v.m ELSE {}

\* C12: no file and no text a load has read holds a top-level name that
\* starts with '_', and the attributes a row got from a load or keeps after
\* a save hold no such name.
C12_NoInternalFieldsStored ==
    /\ \A i \in Inodes : StoredNames(content[i]) \cap InternalNames = {}
    /\ \A p \in Procs :
         /\ pc[p] = "l_exit" => StoredNames(buf[p]) \cap InternalNames = {}
         /\ DOMAIN hdict[p] \cap InternalNames = {}

\* A saved attribute is in the file of key 1 and a second row has loaded it.
C12_Witness ==
    /\ dir[1] # 0
    /\ "count" \in StoredNames(content[dir[1]])
    /\ \E p, q \in Procs :
         /\ p # q
         /\ hkey[p] = 1 /\ hkey[q] = 1
         /\ "count" \in DOMAIN hdict[p]
         /\ "count" \in DOMAIN hdict[q]

\* C13: a Row made by getWithLock holds the exclusive lock on its file from
\* the acquisition in the constructor, through the load, until the caller
\* calls releaseLock on it.
C13_GetWithLockKeepsLock ==
    \A p \in Procs :
        /\ pc[p] \in {"l_shlock", "l_read", "l_exit"} /\ call[p].op = "getWithLock"
             => nlock[p] = "ex"
        /\ hcls[p] = "RowWithLock" => hlock[p] = "ex"

\* The steps of Table.create / createLocked inside the with statement.
InCreate(p) ==
    pc[p] \in {"c_exists", "c_openw", "c_write", "c_openr", "c_rowlock", "c_exit"}

\* C14: the table lock is held only by a process inside the with statement
\* of Table.create / createLocked: once the call has returned a row or
\* raised, its table handle holds no lock.
C14_TableLockReleased ==
    /\ tlock # 0 => InCreate(tlock)
    /\ \A p \in Procs : pc[p] \in {"idle", "u_retry"} => tlock # p

\* A create has raised RowDoesNotExist (its file was removed under it) and
\* nobody holds the table lock.
C14_Witness ==
    /\ ev.op \in {"create", "createLocked"}
    /\ ev.out = "RowDoesNotExist"
    /\ tlock = 0
    /\ \A p \in Procs : pc[p] = "idle"

\* C15: a create or createLocked of a key whose file exists raises
\* RowAlreadyExists, and neither its existence check nor its exit changes
\* the directory or the content of any file.
C15_CreateExistingLeavesContent ==
    [][\A p \in Procs :
         /\ pc[p] = "c_exists" /\ dir[call[p].key] # 0 /\ CreateExists(p)
              => /\ out'[p] = "RowAlreadyExists"
                 /\ pc'[p] = "c_exit"
                 /\ dir' = dir /\ content' = content
         /\ pc[p] = "c_exit" /\ out[p] = "RowAlreadyExists"
              /\ call[p].op \in {"create", "createLocked"} /\ CreateExit(p)
              => /\ ev' = [op |-> call[p].op, key |-> call[p].key,
                           out |-> "RowAlreadyExists"]
                 /\ dir' = dir /\ content' = content
                 /\ hcls' = hcls /\ hdict' = hdict
    ]_vars

\* A create of a key has raised RowAlreadyExists and the file of the key
\* still holds the attribute saved before.
C15_Witness ==
    /\ ev.op = "create" /\ ev.out = "RowAlreadyExists"
    /\ dir[ev.key] # 0
    /\ "count" \in StoredNames(content[dir[ev.key]])

\* The counter in the file of key k.
DiskCount(k) == CountOf(json_loads(content[dir[k]]).m)

\* C16: when every process updates the row through getLocked, change, save,
\* the counter on disk equals the number of saved changes whenever no call
\* is running.
C16_NoLostUpdate ==
    (\A p \in Procs : pc[p] = "idle") => DiskCount(1) = updates[1]

\* The processes other than p with a file object on inode i whose lock is
\* one of kinds.
HoldersOf(p, i, kinds) ==
    {q \in Procs \ {p} :
        \/ hino[q] = i /\ hlock[q] \in kinds
        \/ nino[q] = i /\ nlock[q] \in kinds}

\* The other processes whose locks keep p waiting in flock.
Blockers(p) ==
    CASE pc[p] = "c_lock" -> IF tlock \notin {0, p} THEN {tlock} ELSE {}
      [] pc[p] \in {"c_rowlock", "g_rowlock"} -> HoldersOf(p, nino[p], {"sh", "ex"})
      [] pc[p] = "l_shlock" -> HoldersOf(p, nino[p], {"ex"})
      [] OTHER -> {}

\* C17: no set of processes is such that each of them waits in flock for a
\* lock held by another one of the set.
C17_NoDeadlock ==
    \A W \in SUBSET Procs :
        W # {} => \E p \in W : Blockers(p) \cap W = {}

\* C18: a save writes the file on which its row object holds the exclusive
\* lock, and two saves never have the same file open for writing.
C18_SaveWritesLockedFile ==
    /\ \A p \in Procs :
         pc[p] = "s_write" => wfd[p] = hino[p] /\ hlock[p] = "ex"
    /\ \A p, q \in Procs :
         p # q /\ pc[p] = "s_write" /\ pc[q] = "s_write" => wfd[p] # wfd[q]

\* C19: after save has returned, the attributes of the row it was called
\* on are the ones the row had before the call.
C19_SaveKeepsAttributes ==
    pc[1] = "idle" /\ ncalls >= 2 /\ hcls[1] = "Row" => hdict[1] = orig

====
